---- MODULE Spec2Model ----
(***************************************************************************)
(* Model of the hardened-os secure update and audit scripts:               *)
(*   scripts/transparency-log.py      Merkle-tree transparency log         *)
(*   scripts/tuf-client-updater.py    TUF-style update client              *)
(*   scripts/staged-rollout-manager.py staged rollout controller           *)
(*   hardened-os/logging/log-server-config.py  log receiver                *)
(*                                                                         *)
(* SHA-256 / SHA-512 are modelled as ideal (collision-free) hashes: the    *)
(* digest of a byte string is the tagged term <<"sha256", bytes>>, so two  *)
(* digests are equal exactly when their inputs are.  An Ed25519 signature  *)
(* is the term [key, msg] naming the signing key and the signed bytes.     *)
(***************************************************************************)
EXTENDS Integers, Sequences, FiniteSets, TLC

VARIABLES
    \* ---- transparency-log.py: TransparencyLog ----
    log_entries,        \* self.log_entries (in-memory list)
    entries_file,       \* entries.jsonl (journal, one entry per line)
    log_config,         \* config.json: [log_id, tree_size]
    merkle_tree_file,   \* merkle-tree.json: [tree_size, root_hash]
    verify_result,      \* what the last verify_entry call returned
    query_result,       \* what the last read-only query returned
    writers,            \* the TransparencyLog instances opened on the log directory
    tampered,           \* journal indices whose entry was replaced offline
    \* ---- tuf-client-updater.py: TUFClient ----
    trusted_root,       \* self.trusted_root (None before initialize_root_trust)
    root_keys,          \* self.root_keys: key id -> public key
    metadata_cache,     \* <cache_dir>/metadata/{timestamp,snapshot,targets}.json
    install_paths,      \* target name -> content of its final install path (None: no file)
    temp_files,         \* number of temporary files left on disk
    tuf_last,           \* the last TUFClient call: its arguments and how it ended
    vs_call,            \* arguments and result of the last direct verify_signature call
    \* ---- staged-rollout-manager.py: StagedRolloutManager ----
    config,             \* self.config (rollout-config.json)
    rollout_state,      \* rollout-state.json (None: file absent)
    last_check,         \* arguments and result of the last should_receive_update call
    \* ---- log-server-config.py: SecureLogServer ----
    integrity_db,       \* self.integrity_db: client id -> chain of records
    integrity_db_file,  \* <storage_path>/integrity.db
    stored_logs,        \* batch files under <storage_path>/<client_id>/
    uploads             \* the handle_log_upload tasks: position and last response

logVars     == <<log_entries, entries_file, log_config, merkle_tree_file, verify_result,
                 query_result>>
writerVars  == <<writers, tampered>>
tufVars     == <<trusted_root, root_keys, metadata_cache, install_paths, temp_files,
                 tuf_last, vs_call>>
rolloutVars == <<config, rollout_state, last_check>>
recvVars    == <<integrity_db, integrity_db_file, stored_logs, uploads>>
vars        == <<logVars, writerVars, tufVars, rolloutVars, recvVars>>

\* Python's None; a tuple, so that it compares with digests and records' fields.
None == <<>>

\* ---- bounds of the model ----
MaxEntries == 3      \* appends to the transparency log
MaxClock   == 1      \* distinct clock readings seen by the log
MaxVersion == 2      \* metadata versions the server serves
MaxTempFiles == 1    \* temporary files a run may leave behind
MaxSigs    == 2      \* signatures in an envelope handed to verify_signature
MaxReports == 11     \* health reports fed to one rollout
MaxGateReports == 5  \* health reports per rollout while eligibility is probed
MaxTime    == 1      \* clock readings (hours) stored in the rollout state
MaxBatches == 2      \* uploads the receiver accepts
MaxJournal == 2      \* journal lines while queries or several instances are followed
MaxStamp   == 2      \* readings of the receiver's clock, in ticks
MaxStampedReports == 102  \* health reports fed to one rollout while retention is followed

Min(a, b) == IF a < b THEN a ELSE b
Max(a, b) == IF a > b THEN a ELSE b

(***************************************************************************)
(* hashlib / hex                                                           *)
(***************************************************************************)
sha256(bytes) == <<"sha256", bytes>>
sha512(bytes) == <<"sha512", bytes>>
\* bytes.hex() and bytes.fromhex(): the text form of a digest and back.
hex(digest)   == <<"hex", digest>>
fromhex(text) == text[2]

(***************************************************************************)
(* transparency-log.py                                                     *)
(***************************************************************************)
EntryTypes == {"update_release", "rollout_event", "security_event"}
DataValues == {"a", "b"}
LogId      == "log0"

\* json.dumps(entry, separators=(',', ':'), sort_keys=True): the fields in
\* ascending key order.
CanonicalEntry(e) ==
    << <<"data", e.data>>, <<"entry_type", e.entry_type>>, <<"log_id", e.log_id>>,
       <<"log_index", e.log_index>>, <<"timestamp", e.timestamp>> >>

\* SHA256(0x00 || canonical(entry))
calculate_leaf_hash(entry_data) == sha256(<<0, CanonicalEntry(entry_data)>>)

\* SHA256(0x01 || left || right)
calculate_internal_hash(left_hash, right_hash) == sha256(<<1, left_hash, right_hash>>)

\* One pass of the "Process pairs" loop: an unpaired last node is hashed with itself.
NextLevel(current_level) ==
    [k \in 1..((Len(current_level) + 1) \div 2) |->
        LET left  == current_level[2 * k - 1]
            right == IF 2 * k <= Len(current_level) THEN current_level[2 * k] ELSE left
        IN  calculate_internal_hash(left, right)]

RECURSIVE BuildLevels(_)
BuildLevels(tree_levels) ==
    LET current_level == tree_levels[Len(tree_levels)]
    IN  IF Len(current_level) > 1
        THEN BuildLevels(Append(tree_levels, NextLevel(current_level)))
        ELSE tree_levels

\* Returns (root_hash, tree_levels).  For a single leaf the code returns the list
\* [leaf] in place of a list of levels; its only level-wise use, the loop over
\* tree_levels[:-1], is then empty, as it is for the one-level list <<<<leaf>>>>.
build_merkle_tree(leaf_hashes) ==
    IF leaf_hashes = <<>> THEN [root_hash |-> None, tree_levels |-> <<>>]
    ELSE IF Len(leaf_hashes) = 1
         THEN [root_hash |-> leaf_hashes[1], tree_levels |-> <<leaf_hashes>>]
    ELSE LET tree_levels == BuildLevels(<<leaf_hashes>>)
         IN  [root_hash |-> tree_levels[Len(tree_levels)][1], tree_levels |-> tree_levels]

\* The "Traverse up the tree" loop from level lvl (1-based) on; indices are 0-based
\* as in the code.  A step is appended only when the sibling index is in range.
RECURSIVE ProofFrom(_, _, _, _)
ProofFrom(tree_levels, lvl, current_index, proof) ==
    IF lvl > Len(tree_levels) - 1 THEN proof
    ELSE LET level         == tree_levels[lvl]
             sibling_index == IF current_index % 2 = 0 THEN current_index + 1
                                                       ELSE current_index - 1
             step == IF sibling_index < Len(level)
                     THEN << [hash     |-> hex(level[sibling_index + 1]),
                              is_right |-> (current_index % 2 = 0)] >>
                     ELSE <<>>
         IN  ProofFrom(tree_levels, lvl + 1, current_index \div 2, proof \o step)

create_inclusion_proof(entry_index, tree_levels) ==
    ProofFrom(tree_levels, 1, entry_index, <<>>)

RECURSIVE ApplyProof(_, _, _)
ApplyProof(current_hash, proof, k) ==
    IF k > Len(proof) THEN current_hash
    ELSE LET sibling_hash == fromhex(proof[k].hash)
         IN  ApplyProof(IF proof[k].is_right
                        THEN calculate_internal_hash(current_hash, sibling_hash)
                        ELSE calculate_internal_hash(sibling_hash, current_hash),
                        proof, k + 1)

verify_inclusion_proof(entry_data, entry_index, proof, root_hash) ==
    ApplyProof(calculate_leaf_hash(entry_data), proof, 1) = root_hash

LeafHashes(entries) == [k \in 1..Len(entries) |-> calculate_leaf_hash(entries[k])]

\* get_inclusion_proof(log_index) over the entries held in memory.
get_inclusion_proof(entries, log_index) ==
    LET built == build_merkle_tree(LeafHashes(entries))
    IN  [log_index |-> log_index,
         tree_size |-> Len(entries),
         root_hash |-> hex(built.root_hash),
         proof     |-> create_inclusion_proof(log_index, built.tree_levels)]

\* verify_entry(log_index): the "verified" field of its result.
verify_entry(entries, log_index) ==
    LET entry      == entries[log_index + 1]
        proof_data == get_inclusion_proof(entries, log_index)
    IN  verify_inclusion_proof(entry, log_index, proof_data.proof,
                               fromhex(proof_data.root_hash))

LastTimestamp(entries) ==
    IF entries = <<>> THEN 0 ELSE entries[Len(entries)].timestamp

\* add_entry numbering the entries from 1.
add_entry_from_one(entry_type, entry_data, now) ==
    LET entry == [log_index  |-> Len(log_entries) + 1,
                  timestamp  |-> now,
                  entry_type |-> entry_type,
                  data       |-> entry_data,
                  log_id     |-> log_config.log_id]
        entries == Append(log_entries, entry)
        built   == build_merkle_tree(LeafHashes(entries))
    IN  /\ log_entries' = entries
        /\ entries_file' = Append(entries_file, entry)
        /\ log_config' = [log_config EXCEPT !.tree_size = Len(entries)]
        /\ merkle_tree_file' =
               [tree_size |-> Len(entries), root_hash |-> hex(built.root_hash)]
        /\ UNCHANGED <<verify_result, query_result>>

\* add_entry opening entries.jsonl with mode 'w' in place of 'a'.
add_entry_rewriting(entry_type, entry_data, now) ==
    LET entry == [log_index  |-> Len(log_entries),
                  timestamp  |-> now,
                  entry_type |-> entry_type,
                  data       |-> entry_data,
                  log_id     |-> log_config.log_id]
        entries == Append(log_entries, entry)
        built   == build_merkle_tree(LeafHashes(entries))
    IN  /\ log_entries' = entries
        /\ entries_file' = <<entry>>
        /\ log_config' = [log_config EXCEPT !.tree_size = Len(entries)]
        /\ merkle_tree_file' =
               [tree_size |-> Len(entries), root_hash |-> hex(built.root_hash)]
        /\ UNCHANGED <<verify_result, query_result>>

\* add_entry(entry_type, entry_data); now is the reading of datetime.utcnow().
add_entry(entry_type, entry_data, now) ==
    LET entry == [log_index  |-> Len(log_entries),
                  timestamp  |-> now,
                  entry_type |-> entry_type,
                  data       |-> entry_data,
                  log_id     |-> log_config.log_id]
        entries == Append(log_entries, entry)
        built   == build_merkle_tree(LeafHashes(entries))
    IN  /\ log_entries' = entries
        /\ entries_file' = Append(entries_file, entry)
        /\ log_config' = [log_config EXCEPT !.tree_size = Len(entries)]
        /\ merkle_tree_file' =
               [tree_size |-> Len(entries),
                root_hash |-> IF built.root_hash /= None THEN hex(built.root_hash)
                                                          ELSE None]
        /\ UNCHANGED <<verify_result, query_result>>

AddEntryWithin(limit) ==
    /\ Len(log_entries) < limit
    /\ \E entry_type \in EntryTypes, entry_data \in DataValues,
          now \in LastTimestamp(log_entries)..MaxClock :
           add_entry(entry_type, entry_data, now)
    /\ UNCHANGED <<writerVars, tufVars, rolloutVars, recvVars>>

AddEntry == AddEntryWithin(MaxEntries)
\* Appends while the read-only queries are exercised.
AddEntryOps == AddEntryWithin(MaxJournal)

\* The "verify <index>" command: verify_entry raises for an index out of range.
VerifyEntry ==
    /\ \E log_index \in 0..(Len(log_entries) - 1) :
           verify_result' = [log_index |-> log_index,
                             tree_size |-> Len(log_entries),
                             verified  |-> verify_entry(log_entries, log_index)]
    /\ UNCHANGED <<log_entries, entries_file, log_config, merkle_tree_file, query_result>>
    /\ UNCHANGED <<writerVars, tufVars, rolloutVars, recvVars>>

\* get_entry(log_index): the entry, or ValueError for an index out of range.
get_entry(entries, log_index) ==
    IF log_index < 0 \/ log_index >= Len(entries) THEN <<"ValueError">>
    ELSE entries[log_index + 1]

\* get_entries(start_index, count): the slices entries[start:] and
\* entries[start:start+count]; count is None or the tuple holding the number.
get_entries(entries, start_index, count) ==
    LET last == IF count = None THEN Len(entries)
                ELSE Min(Len(entries), start_index + count[1])
    IN  SubSeq(entries, start_index + 1, last)

\* The payload's "update_id" (entry["data"].get("update_id")): payloads are told
\* apart by the update they are about.
UpdateIdOf(data) == data

\* search_entries(entry_type, update_id, limit): a filter that is None or empty
\* is not applied ("if entry_type and ..."); the loop stops once limit results
\* are collected, which is tested after a result was added.
search_entries(entries, entry_type, update_id, limit) ==
    LET Matches(e) == /\ (entry_type = "" \/ e.entry_type = entry_type)
                      /\ (update_id = "" \/ UpdateIdOf(e.data) = update_id)
        results == SelectSeq(entries, Matches)
    IN  SubSeq(results, 1, Min(Len(results), Max(limit, 1)))

\* get_log_info(): the fields computed from the state.
get_log_info(entries) ==
    [log_id    |-> log_config.log_id,
     tree_size |-> Len(entries),
     root_hash |-> IF entries /= <<>>
                   THEN hex(build_merkle_tree(LeafHashes(entries)).root_hash)
                   ELSE None]

\* A read-only query leaves the log as it is and hands its result to the caller.
Query(op, result) ==
    /\ query_result' = [op |-> op, result |-> result]
    /\ UNCHANGED <<log_entries, entries_file, log_config, merkle_tree_file, verify_result>>
    /\ UNCHANGED <<writerVars, tufVars, rolloutVars, recvVars>>

GetEntry ==
    \E log_index \in 0..Len(log_entries) :
        Query("get_entry", get_entry(log_entries, log_index))

GetEntries ==
    \E start_index \in 0..Len(log_entries), limited \in BOOLEAN :
        Query("get_entries",
              get_entries(log_entries, start_index, IF limited THEN <<1>> ELSE None))

GetInclusionProof ==
    \E log_index \in 0..Len(log_entries) :
        Query("get_inclusion_proof",
              IF log_index >= Len(log_entries) THEN <<"ValueError">>
              ELSE get_inclusion_proof(log_entries, log_index))

SearchEntries ==
    \E entry_type \in {""} \cup EntryTypes, update_id \in {""} \cup DataValues,
       limit \in {1, 100} :
        Query("search_entries", search_entries(log_entries, entry_type, update_id, limit))

GetLogInfo == Query("get_log_info", get_log_info(log_entries))

\* verify_entry(log_index) as one of the queries.
VerifyEntryQuery ==
    \E log_index \in 0..(Len(log_entries) - 1) :
        Query("verify_entry", [log_index |-> log_index,
                               tree_size |-> Len(log_entries),
                               verified  |-> verify_entry(log_entries, log_index)])

\* ---- several TransparencyLog instances on one log directory ----
\* Each process holds its own self.log_entries and self.config, loaded when the
\* instance is constructed; entries.jsonl, config.json and merkle-tree.json are
\* shared.  add_entry is followed file operation by file operation: a process
\* may be interrupted, and another may run, between any two of them.
Writers == {"w1", "w2"}
WriterData == DataValues

Closed == [pc |-> "closed", log_entries |-> <<>>, config |-> None]

\* An instance that on opening keeps only the journal lines the saved tree_size covers.
OpenLogCoveredOnly(w) ==
    /\ writers[w].pc = "closed"
    /\ writers' = [writers EXCEPT ![w] =
                        [pc          |-> "idle",
                         log_entries |-> SubSeq(entries_file, 1, log_config.tree_size),
                         config      |-> log_config]]
    /\ UNCHANGED <<log_entries, entries_file, log_config, merkle_tree_file,
                   verify_result, query_result, tampered>>
    /\ UNCHANGED <<tufVars, rolloutVars, recvVars>>

\* __init__: load_config() and load_entries() on an existing log directory.
OpenLog(w) ==
    /\ writers[w].pc = "closed"
    /\ writers' = [writers EXCEPT ![w] = [pc          |-> "idle",
                                          log_entries |-> entries_file,
                                          config      |-> log_config]]
    /\ UNCHANGED <<log_entries, entries_file, log_config, merkle_tree_file,
                   verify_result, query_result, tampered>>
    /\ UNCHANGED <<tufVars, rolloutVars, recvVars>>

\* add_entry up to the write to entries.jsonl: the entry takes the index
\* len(self.log_entries) of this instance and is appended to the file.
WriteEntry(w) ==
    /\ writers[w].pc = "idle"
    /\ Len(entries_file) < MaxJournal
    /\ \E entry_data \in WriterData,
          now \in LastTimestamp(writers[w].log_entries)..MaxClock :
        LET entry == [log_index  |-> Len(writers[w].log_entries),
                      timestamp  |-> now,
                      entry_type |-> "update_release",
                      data       |-> entry_data,
                      log_id     |-> writers[w].config.log_id]
        IN  /\ writers' = [writers EXCEPT
                              ![w].pc = "entry_written",
                              ![w].log_entries = Append(@, entry)]
            /\ entries_file' = Append(entries_file, entry)
    /\ UNCHANGED <<log_entries, log_config, merkle_tree_file, verify_result,
                   query_result, tampered>>
    /\ UNCHANGED <<tufVars, rolloutVars, recvVars>>

\* add_entry: self.config["tree_size"] = len(self.log_entries); self.save_config().
SaveConfig(w) ==
    /\ writers[w].pc = "entry_written"
    /\ LET saved == [writers[w].config EXCEPT !.tree_size = Len(writers[w].log_entries)]
       IN  /\ writers' = [writers EXCEPT ![w].pc = "config_saved", ![w].config = saved]
           /\ log_config' = saved
    /\ UNCHANGED <<log_entries, entries_file, merkle_tree_file, verify_result,
                   query_result, tampered>>
    /\ UNCHANGED <<tufVars, rolloutVars, recvVars>>

\* add_entry: merkle-tree.json is rewritten with the size and root of this instance.
SaveMerkleTree(w) ==
    /\ writers[w].pc = "config_saved"
    /\ LET built == build_merkle_tree(LeafHashes(writers[w].log_entries))
       IN  merkle_tree_file' = [tree_size |-> Len(writers[w].log_entries),
                                root_hash |-> hex(built.root_hash)]
    /\ writers' = [writers EXCEPT ![w].pc = "idle"]
    /\ UNCHANGED <<log_entries, entries_file, log_config, verify_result,
                   query_result, tampered>>
    /\ UNCHANGED <<tufVars, rolloutVars, recvVars>>

\* The process ends or is killed; what it held in memory is gone.
Crash(w) ==
    /\ writers[w].pc /= "closed"
    /\ writers' = [writers EXCEPT ![w] = Closed]
    /\ UNCHANGED <<log_entries, entries_file, log_config, merkle_tree_file,
                   verify_result, query_result, tampered>>
    /\ UNCHANGED <<tufVars, rolloutVars, recvVars>>

\* verify_entry(log_index) on the instance w.
WriterVerifyEntry(w) ==
    /\ writers[w].pc = "idle"
    /\ \E log_index \in 0..(Len(writers[w].log_entries) - 1) :
           verify_result' = [log_index |-> log_index,
                             tree_size |-> Len(writers[w].log_entries),
                             verified  |-> verify_entry(writers[w].log_entries, log_index)]
    /\ UNCHANGED <<log_entries, entries_file, log_config, merkle_tree_file,
                   query_result, writers, tampered>>
    /\ UNCHANGED <<tufVars, rolloutVars, recvVars>>

\* While no instance is open, a line of entries.jsonl is replaced by an entry
\* with another payload.
ReplaceEntryOffline ==
    /\ \A w \in Writers : writers[w].pc = "closed"
    /\ \E i \in 1..Len(entries_file), payload \in WriterData :
        /\ payload /= entries_file[i].data
        /\ entries_file' = [entries_file EXCEPT ![i].data = payload]
        /\ tampered' = tampered \cup {i - 1}
    /\ UNCHANGED <<log_entries, log_config, merkle_tree_file, verify_result,
                   query_result, writers>>
    /\ UNCHANGED <<tufVars, rolloutVars, recvVars>>

LogInit ==
    /\ log_entries = <<>>
    /\ entries_file = <<>>
    /\ log_config = [log_id |-> LogId, tree_size |-> 0]
    /\ merkle_tree_file = None
    /\ verify_result = None
    /\ query_result = None
    /\ writers = [w \in Writers |-> Closed]
    /\ tampered = {}

(***************************************************************************)
(* tuf-client-updater.py                                                   *)
(***************************************************************************)
KeyIds == {"k1", "k2", "k3"}
Roles  == {"timestamp", "snapshot", "targets"}

\* json.dumps(metadata, separators=(',', ':'), sort_keys=True).encode('utf-8'):
\* the text of the record's abstract value (key order and spacing are fixed).
CanonicalJSON(metadata) == <<"json", metadata>>

\* The Ed25519 public key of key id kid, and a signature made with kid's private
\* key over msg.
PublicKey(kid) == <<"ed25519-public", kid>>
Sign(kid, msg) == [signer |-> kid, msg |-> msg]
\* public_key.verify(sig_bytes, canonical_bytes): TRUE where the code's call returns,
\* FALSE where it raises InvalidSignature.
Ed25519Verify(public_key, sig_bytes, canonical_bytes) ==
    /\ sig_bytes.signer = public_key[2]
    /\ sig_bytes.msg = canonical_bytes

\* Root metadata: the key table and, per role, its key ids and threshold.
RootRoles == Roles \cup {"root"}
RootMetadata(version, keytypes, roles) ==
    [signed |-> [type |-> "root", version |-> version, keys |-> keytypes, roles |-> roles],
     signatures |-> <<>>]

Root1 == RootMetadata(1,
    [kid \in KeyIds |-> IF kid = "k3" THEN "rsa" ELSE "ed25519"],
    [role \in RootRoles |->
        IF role = "root" THEN [keyids |-> {"k1"}, threshold |-> 1]
        ELSE IF role = "timestamp" THEN [keyids |-> {"k1", "k2"}, threshold |-> 2]
        ELSE IF role = "snapshot" THEN [keyids |-> {"k1"}, threshold |-> 1]
        ELSE [keyids |-> {"k1", "k2"}, threshold |-> 1]])

Root2 == RootMetadata(2,
    [kid \in KeyIds |-> IF kid = "k3" THEN "rsa" ELSE "ed25519"],
    [role \in RootRoles |->
        IF role = "root" THEN [keyids |-> {"k2"}, threshold |-> 1]
        ELSE IF role = "timestamp" THEN [keyids |-> {"k1"}, threshold |-> 1]
        ELSE IF role = "snapshot" THEN [keyids |-> {"k1"}, threshold |-> 1]
        ELSE [keyids |-> {"k2", "k3"}, threshold |-> 1]])

RootMetadatas == {Root1, Root2}

\* load_root_keys: only the ed25519 keys of the key table are loaded.
load_root_keys(root_metadata) ==
    LET keys == root_metadata.signed.keys
    IN  [kid \in {k \in DOMAIN keys : keys[k] = "ed25519"} |-> PublicKey(kid)]

\* "signed" not in signed_metadata or "signatures" not in signed_metadata
MalformedMetadata(signed_metadata) ==
    \/ "signed" \notin DOMAIN signed_metadata
    \/ "signatures" \notin DOMAIN signed_metadata

\* The loop of verify_signature: one count per listed signature whose key id is
\* in role_keys and whose signature verifies; the result is "count > 0".
verify_signature(signed_metadata, role_keys) ==
    LET metadata        == signed_metadata.signed
        signatures      == signed_metadata.signatures
        canonical_bytes == CanonicalJSON(metadata)
        verified_signatures ==
            Cardinality({i \in 1..Len(signatures) :
                /\ signatures[i].keyid \in DOMAIN role_keys
                /\ Ed25519Verify(role_keys[signatures[i].keyid],
                                 fromhex(signatures[i].signature), canonical_bytes)})
    IN  verified_signatures > 0

\* {kid: self.root_keys[kid] for kid in role["keyids"]}; a KeyError when a key id of
\* the role was not loaded.
RoleKeyIds(root, role)  == root.signed.roles[role].keyids
RoleKeyError(root, keys, role) == ~(RoleKeyIds(root, role) \subseteq DOMAIN keys)
RoleKeys(root, keys, role) == [kid \in RoleKeyIds(root, role) |-> keys[kid]]

\* ---- what the update server may serve ----
SigBy(keyid, signer, msg) == [keyid |-> keyid, signature |-> hex(Sign(signer, msg))]
Envelope(signed, signers) ==
    [signed |-> signed,
     signatures |-> [i \in 1..Len(signers) |->
                        SigBy(signers[i][1], signers[i][2], CanonicalJSON(signed))]]

\* The root files "init <root.json>" is given, and what GET /metadata/root.json may
\* return: the same roots without signatures, and version 2 signed by the root key
\* of version 1 and by its own root key.
CrossSigned == << <<"k1", "k1">>, <<"k2", "k2">> >>
ServedRoots == RootMetadatas \cup {Envelope(Root2.signed, CrossSigned)}

Blobs == {<<1, 2>>, <<1, 3>>, <<1>>}
GoodBlob == <<1, 2>>
TargetInfo(blob) ==
    [length |-> Len(blob),
     hashes |-> [sha256 |-> hex(sha256(blob)), sha512 |-> hex(sha512(blob))]]
\* An entry whose two digests describe different contents.
MixedInfo ==
    [length |-> 2,
     hashes |-> [sha256 |-> hex(sha256(<<1, 2>>)), sha512 |-> hex(sha512(<<1, 3>>))]]
TargetNames == {"pkg", "absent"}
TargetsTables == { [n \in {"pkg"} |-> TargetInfo(GoodBlob)], [n \in {"pkg"} |-> MixedInfo] }

\* One valid signature by k1, or one signature listed for k1 but made by another key.
ValidBy1   == << <<"k1", "k1">> >>
ForgedBy3  == << <<"k1", "k3">> >>

\* A metadata file on the wire, as a sequence of tokens, and the reference by which
\* the file one level up names it: its version, length and SHA-256.
FileBytes(envelope) == <<envelope.signed>> \o envelope.signatures
FileRef(envelope) ==
    [version |-> envelope.signed.version,
     length  |-> Len(FileBytes(envelope)),
     hashes  |-> [sha256 |-> hex(sha256(FileBytes(envelope)))]]

\* The "signed" part of the three files.  "expires" is a day; the files the
\* repository publishes expire on day 2.  The snapshot names the targets file and
\* the timestamp names the snapshot file the repository published.
Versions == 1..MaxVersion
TargetsSigned(v, table) ==
    [type |-> "targets", version |-> v, expires |-> 2, targets |-> table]
PublishedTargets ==
    Envelope(TargetsSigned(1, [n \in {"pkg"} |-> TargetInfo(GoodBlob)]), ValidBy1)
SnapshotSigned(v) ==
    [type |-> "snapshot", version |-> v, expires |-> 2,
     meta |-> [n \in {"targets.json"} |-> FileRef(PublishedTargets)]]
PublishedSnapshot == Envelope(SnapshotSigned(1), ValidBy1)
TimestampSigned(v) ==
    [type |-> "timestamp", version |-> v, expires |-> 2,
     meta |-> [n \in {"snapshot.json"} |-> FileRef(PublishedSnapshot)]]
\* The same content with an expiry date already passed on the day of a refresh.
Expiring(signed) == [signed EXCEPT !.expires = 0]

ServedTimestamps ==
    {Envelope(TimestampSigned(v), s) : v \in Versions, s \in {ValidBy1, ForgedBy3}}
ServedSnapshots ==
    {Envelope(SnapshotSigned(1), s) : s \in {ValidBy1, ForgedBy3}}
ServedTargets ==
    {Envelope(TargetsSigned(1, t), ValidBy1) : t \in TargetsTables}
        \cup {Envelope(TargetsSigned(1, [n \in {"pkg"} |-> TargetInfo(GoodBlob)]), ForgedBy3)}
\* The same files and, of each kind, one correctly signed file that has expired.
DatedTimestamps ==
    ServedTimestamps \cup {Envelope(Expiring(TimestampSigned(1)), ValidBy1)}
DatedSnapshots ==
    ServedSnapshots \cup {Envelope(Expiring(SnapshotSigned(1)), ValidBy1)}
DatedTargets ==
    ServedTargets \cup {Envelope(Expiring(PublishedTargets.signed), ValidBy1)}

NoCache == [timestamp |-> None, snapshot |-> None, targets |-> None]

\* One "download, pick the role's keys, verify" step of update_metadata: how it ends.
RoleCheck(envelope, role, failure) ==
    IF RoleKeyError(trusted_root, root_keys, role) THEN "KeyError"
    ELSE IF MalformedMetadata(envelope) THEN "ValueError"
    ELSE IF ~verify_signature(envelope, RoleKeys(trusted_root, root_keys, role)) THEN failure
    ELSE "ok"

TimestampCheck(ts) ==
    IF trusted_root = None THEN "Root trust not initialized"
    ELSE RoleCheck(ts, "timestamp", "Timestamp metadata signature verification failed")
SnapshotCheck(sn) ==
    RoleCheck(sn, "snapshot", "Snapshot metadata signature verification failed")
TargetsCheck(tg) ==
    RoleCheck(tg, "targets", "Targets metadata signature verification failed")

\* update_metadata up to the point where it caches: how it ends when the server
\* serves timestamp ts, snapshot sn and targets tg.  A file is downloaded only
\* when the steps before it passed, and is None otherwise.
update_metadata_result(ts, sn, tg) ==
    IF TimestampCheck(ts) /= "ok" THEN TimestampCheck(ts)
    ELSE IF SnapshotCheck(sn) /= "ok" THEN SnapshotCheck(sn)
    ELSE TargetsCheck(tg)

\* update_metadata writing each file to the cache as soon as it verified.
update_metadata_cache_eager(ts, sn, tg) ==
    [timestamp |-> IF TimestampCheck(ts) = "ok" THEN ts ELSE metadata_cache.timestamp,
     snapshot  |-> IF TimestampCheck(ts) = "ok" /\ SnapshotCheck(sn) = "ok"
                   THEN sn ELSE metadata_cache.snapshot,
     targets   |-> IF update_metadata_result(ts, sn, tg) = "ok"
                   THEN tg ELSE metadata_cache.targets]

\* "Cache all metadata": the three files are written only after all three verified.
update_metadata_cache(ts, sn, tg) ==
    IF update_metadata_result(ts, sn, tg) = "ok"
    THEN [timestamp |-> ts, snapshot |-> sn, targets |-> tg]
    ELSE metadata_cache

\* What the three downloads of one update_metadata run can return.
TimestampDownloads == IF trusted_root = None THEN {None} ELSE ServedTimestamps
SnapshotDownloads(ts) == IF TimestampCheck(ts) = "ok" THEN ServedSnapshots ELSE {None}
TargetsDownloads(ts, sn) ==
    IF TimestampCheck(ts) = "ok" /\ SnapshotCheck(sn) = "ok" THEN ServedTargets ELSE {None}

\* initialize_root_trust(root_file): the root is read from root_file when one is
\* given and fetched from the server otherwise.
initialize_root_trust(source, root_metadata) ==
    /\ root_keys' = load_root_keys(root_metadata)
    /\ trusted_root' = root_metadata
    /\ tuf_last' = [op |-> "initialize_root_trust", source |-> source]

\* "init <root.json>"
InitializeRootTrust ==
    /\ \E root_metadata \in RootMetadatas :
            initialize_root_trust("root_file", root_metadata)
    /\ UNCHANGED <<metadata_cache, install_paths, temp_files, vs_call>>
    /\ UNCHANGED <<logVars, writerVars, rolloutVars, recvVars>>

\* "init" without a file
DownloadRootTrust ==
    /\ \E root_metadata \in ServedRoots :
            initialize_root_trust("download", root_metadata)
    /\ UNCHANGED <<metadata_cache, install_paths, temp_files, vs_call>>
    /\ UNCHANGED <<logVars, writerVars, rolloutVars, recvVars>>

ServedVersion(ts) == IF ts = None THEN 0 ELSE ts.signed.version

update_metadata(ts, sn, tg) ==
    /\ metadata_cache' = update_metadata_cache(ts, sn, tg)
    /\ tuf_last' = [op |-> "update_metadata",
                    result |-> update_metadata_result(ts, sn, tg),
                    served_version |-> ServedVersion(ts)]

UpdateMetadata ==
    /\ \E ts \in TimestampDownloads :
       \E sn \in SnapshotDownloads(ts) :
       \E tg \in TargetsDownloads(ts, sn) :
            update_metadata(ts, sn, tg)
    /\ UNCHANGED <<trusted_root, root_keys, install_paths, temp_files, vs_call>>
    /\ UNCHANGED <<logVars, writerVars, rolloutVars, recvVars>>

\* update_metadata while the server may also serve files that have expired.
Fetched(served, fetched) == IF fetched THEN served ELSE {None}
UpdateMetadataDated ==
    /\ \E ts \in Fetched(DatedTimestamps, trusted_root /= None) :
       \E sn \in Fetched(DatedSnapshots, TimestampCheck(ts) = "ok") :
       \E tg \in Fetched(DatedTargets,
                          TimestampCheck(ts) = "ok" /\ SnapshotCheck(sn) = "ok") :
            update_metadata(ts, sn, tg)
    /\ UNCHANGED <<trusted_root, root_keys, install_paths, temp_files, vs_call>>
    /\ UNCHANGED <<logVars, writerVars, rolloutVars, recvVars>>

\* What GET /targets/<name> yields: the bytes received and whether the transfer
\* failed before the first byte ("connect") or in the middle of the body ("read").
Streams ==
    {[bytes |-> b, failure |-> "none"] : b \in Blobs}
        \cup {[bytes |-> <<1>>, failure |-> "read"], [bytes |-> <<>>, failure |-> "connect"]}

\* download_target with the SHA-512 comparison left out.
download_target_no_sha512(stream, target_info) ==
    LET total_size == Len(stream.bytes)
    IN  IF stream.failure = "connect"
        THEN [result |-> "Failed to download", temp_file |-> None, leaked |-> 0]
        ELSE IF stream.failure = "read"
        THEN [result |-> "Failed to download", temp_file |-> None, leaked |-> 1]
        ELSE IF total_size /= target_info.length
        THEN [result |-> "Size mismatch", temp_file |-> None, leaked |-> 0]
        ELSE IF hex(sha256(stream.bytes)) /= target_info.hashes.sha256
        THEN [result |-> "SHA256 hash mismatch", temp_file |-> None, leaked |-> 0]
        ELSE [result |-> "ok", temp_file |-> stream.bytes, leaked |-> 0]

\* download_target: [result, temp_file, leaked].  temp_file is the content of the
\* temporary file returned; leaked counts a temporary file left behind.
download_target(stream, target_info) ==
    LET total_size == Len(stream.bytes)
    IN  IF stream.failure = "connect"
        THEN [result |-> "Failed to download", temp_file |-> None, leaked |-> 0]
        ELSE IF stream.failure = "read"
        THEN [result |-> "Failed to download", temp_file |-> None, leaked |-> 1]
        ELSE IF total_size /= target_info.length
        THEN [result |-> "Size mismatch", temp_file |-> None, leaked |-> 0]
        ELSE IF hex(sha256(stream.bytes)) /= target_info.hashes.sha256
        THEN [result |-> "SHA256 hash mismatch", temp_file |-> None, leaked |-> 0]
        ELSE IF hex(sha512(stream.bytes)) /= target_info.hashes.sha512
        THEN [result |-> "SHA512 hash mismatch", temp_file |-> None, leaked |-> 0]
        ELSE [result |-> "ok", temp_file |-> stream.bytes, leaked |-> 0]

\* The target's entry when update_metadata passed and lists target_name, else None.
LookupTarget(target_name, ts, sn, tg) ==
    IF update_metadata_result(ts, sn, tg) = "ok" /\ target_name \in DOMAIN tg.signed.targets
    THEN tg.signed.targets[target_name]
    ELSE None

\* The download is made only for a target found, os.rename is called only for a
\* download that verified; stream and rename_ok are None otherwise.
StreamsFor(target_info) == IF target_info = None THEN {None} ELSE Streams
RenamesFor(target_info, stream) ==
    IF target_info /= None /\ download_target(stream, target_info).result = "ok"
    THEN BOOLEAN ELSE {None}

\* install_update(target_name) with the default install path of the target;
\* rename_ok tells whether os.rename succeeds.
install_update(target_name, ts, sn, tg, stream, rename_ok) ==
    LET refresh     == update_metadata_result(ts, sn, tg)
        target_info == LookupTarget(target_name, ts, sn, tg)
        got     == IF target_info /= None THEN download_target(stream, target_info)
                   ELSE [result |-> "none", temp_file |-> None, leaked |-> 0]
        result  == IF refresh /= "ok" THEN refresh
                   ELSE IF target_info = None THEN "Target not found"
                   ELSE IF got.result /= "ok" THEN got.result
                   ELSE IF rename_ok = TRUE THEN "installed" ELSE "rename failed"
    IN  /\ temp_files + got.leaked <= MaxTempFiles
        /\ metadata_cache' = update_metadata_cache(ts, sn, tg)
        /\ temp_files' = temp_files + got.leaked
        /\ install_paths' = IF result = "installed"
                            THEN [install_paths EXCEPT ![target_name] = got.temp_file]
                            ELSE install_paths
        /\ tuf_last' = [op |-> "install_update", result |-> result,
                        target_name |-> target_name, stream |-> stream,
                        target_info |-> target_info]

InstallUpdate ==
    /\ \E target_name \in TargetNames :
       \E ts \in TimestampDownloads :
       \E sn \in SnapshotDownloads(ts) :
       \E tg \in TargetsDownloads(ts, sn) :
       \E stream \in StreamsFor(LookupTarget(target_name, ts, sn, tg)) :
       \E rename_ok \in RenamesFor(LookupTarget(target_name, ts, sn, tg), stream) :
            install_update(target_name, ts, sn, tg, stream, rename_ok)
    /\ UNCHANGED <<trusted_root, root_keys, vs_call>>
    /\ UNCHANGED <<logVars, writerVars, rolloutVars, recvVars>>

\* A direct call of verify_signature(signed_metadata, role_keys) with the keys of
\* a role of a root; the envelopes carry up to MaxSigs signatures, each listed for
\* some key id and made by some key over the envelope or over other bytes.
SignatureEntries(msg) ==
    {SigBy(keyid, signer, m) : keyid \in KeyIds, signer \in {"k1", "k2"},
                               m \in {msg, CanonicalJSON(TimestampSigned(0))}}
SignatureLists(msg) ==
    UNION {[1..n -> SignatureEntries(msg)] : n \in 0..MaxSigs}
CallEnvelopes ==
    {[signed |-> TimestampSigned(1), signatures |-> sigs] :
        sigs \in SignatureLists(CanonicalJSON(TimestampSigned(1)))}
        \cup {[signed |-> TimestampSigned(1)]}

VerifySignatureCall ==
    /\ \E signed_metadata \in CallEnvelopes, root \in RootMetadatas, role \in Roles :
        /\ ~RoleKeyError(root, load_root_keys(root), role)
        /\ vs_call' =
            [signed_metadata |-> signed_metadata,
             keyids    |-> RoleKeyIds(root, role),
             threshold |-> root.signed.roles[role].threshold,
             result    |-> IF MalformedMetadata(signed_metadata) THEN "ValueError"
                           ELSE IF verify_signature(signed_metadata,
                                       RoleKeys(root, load_root_keys(root), role))
                                THEN "True" ELSE "False"]
    /\ UNCHANGED <<trusted_root, root_keys, metadata_cache, install_paths, temp_files,
                   tuf_last>>
    /\ UNCHANGED <<logVars, writerVars, rolloutVars, recvVars>>

TufInit ==
    /\ trusted_root = None
    /\ root_keys = <<>>
    /\ metadata_cache = NoCache
    /\ install_paths = [n \in TargetNames |-> None]
    /\ temp_files = 0
    /\ tuf_last = [op |-> "none"]
    /\ vs_call = [result |-> "none"]

(***************************************************************************)
(* staged-rollout-manager.py                                               *)
(***************************************************************************)
UpdateIds == {"U1", "U2"}
SystemIds == {"node-0023", "node-0040", "node-0039", "node-0058"}

Stage(name, percentage, duration_hours) ==
    [name |-> name, percentage |-> percentage, duration_hours |-> duration_hours]

default_stages ==
    << Stage("canary", 1, 24), Stage("early", 10, 48),
       Stage("gradual", 50, 72), Stage("full", 100, 0) >>
\* Other rollout-config.json stage lists: three stages ending open-ended, stages
\* without an open-ended last stage, and a list whose percentages decrease.
ThreeStages  == << Stage("canary", 1, 24), Stage("early", 10, 48), Stage("full", 100, 0) >>
ClosedStages == << Stage("canary", 1, 24), Stage("early", 10, 48), Stage("half", 50, 72) >>
FallingStages == << Stage("wide", 50, 24), Stage("narrow", 10, 0) >>

Config(stages, failure_threshold, enabled, automatic) ==
    [stages        |-> stages,
     health_checks |-> [enabled |-> TRUE, failure_threshold |-> failure_threshold,
                        success_threshold |-> 95],
     rollback      |-> [enabled |-> enabled, automatic |-> automatic]]

\* load_config when rollout-config.json is absent.
DefaultConfig == Config(default_stages, 5, TRUE, TRUE)

\* hashlib.sha256(f"{update_id}:{system_id}").hexdigest()[:8]: the eight hex digits
\* SHA-256 gives for these identifiers, as the pair <<first four, last four>> of
\* 16-bit numbers (the 32-bit value is hi * 65536 + lo).
HashPrefix(update_id, system_id) ==
    IF update_id = "U1"
    THEN CASE system_id = "node-0023" -> <<53656, 49784>>
           [] system_id = "node-0040" -> <<42209, 53481>>
           [] system_id = "node-0039" -> <<44448, 27222>>
           [] system_id = "node-0058" -> <<8797, 38207>>
    ELSE CASE system_id = "node-0023" -> <<9130, 56133>>
           [] system_id = "node-0040" -> <<17307, 38604>>
           [] system_id = "node-0039" -> <<49950, 51000>>
           [] system_id = "node-0058" -> <<57667, 33784>>

\* calculate_rollout_group mixing the number of stored health reports into the group.
calculate_rollout_group_by_reports(update_id, system_id) ==
    LET hash_value == HashPrefix(update_id, system_id)
        salt == IF rollout_state = None THEN 0 ELSE Len(rollout_state.health_reports)
    IN  ((hash_value[1] % 100) * 36 + hash_value[2] + salt) % 100

\* int(hash_value[:8], 16) % 100, computed on the two halves: 65536 % 100 = 36.
calculate_rollout_group(update_id, system_id) ==
    LET hash_value == HashPrefix(update_id, system_id)
    IN  ((hash_value[1] % 100) * 36 + hash_value[2]) % 100

\* The loop of get_current_stage from stage k on; the fall-through is the last stage.
RECURSIVE StageFrom(_, _, _, _, _)
StageFrom(stages, k, cumulative_hours, rollout_percentage, elapsed_hours) ==
    IF k > Len(stages) THEN stages[Len(stages)]
    ELSE LET stage == stages[k]
             cumulative_percentage == stage.percentage
             hours == cumulative_hours + stage.duration_hours
         IN  IF /\ (elapsed_hours <= hours \/ stage.duration_hours = 0)
                /\ rollout_percentage < cumulative_percentage
             THEN stage
             ELSE StageFrom(stages, k + 1, hours, rollout_percentage, elapsed_hours)

\* get_current_stage falling through to the first stage in place of the last.
RECURSIVE StageFromFirst(_, _, _, _, _)
StageFromFirst(stages, k, cumulative_hours, rollout_percentage, elapsed_hours) ==
    IF k > Len(stages) THEN stages[1]
    ELSE LET stage == stages[k]
             hours == cumulative_hours + stage.duration_hours
         IN  IF /\ (elapsed_hours <= hours \/ stage.duration_hours = 0)
                /\ rollout_percentage < stage.percentage
             THEN stage
             ELSE StageFromFirst(stages, k + 1, hours, rollout_percentage, elapsed_hours)

get_current_stage_first(stages, rollout_percentage, elapsed_hours) ==
    StageFromFirst(stages, 1, 0, rollout_percentage, elapsed_hours)

\* get_current_stage, with elapsed_hours = utcnow() - rollout_start_time in hours.
get_current_stage(stages, rollout_percentage, elapsed_hours) ==
    StageFrom(stages, 1, 0, rollout_percentage, elapsed_hours)

\* should_receive_update(update_id) on the node system_id: (eligible, info).
should_receive_update(state, stages, update_id, system_id, elapsed_hours) ==
    LET rollout_percentage == calculate_rollout_group(update_id, system_id)
    IN  IF state = None \/ state.update_id /= update_id
        THEN [eligible |-> FALSE, info |-> None]
        ELSE LET current_stage == get_current_stage(stages, rollout_percentage, elapsed_hours)
                 eligible == rollout_percentage < current_stage.percentage
             IN  [eligible |-> eligible,
                  info |-> [rollout_percentage |-> rollout_percentage,
                            current_stage      |-> current_stage.name,
                            stage_percentage   |-> current_stage.percentage,
                            eligible           |-> eligible]]

\* Hours since start_time at which eligibility is asked.
ElapsedSamples == {0, 24, 25, 150}

ShouldReceiveUpdate ==
    /\ \E update_id \in UpdateIds, system_id \in SystemIds, elapsed_hours \in ElapsedSamples :
        last_check' =
            [update_id |-> update_id, system_id |-> system_id,
             elapsed_hours |-> elapsed_hours,
             result |-> should_receive_update(rollout_state, config.stages, update_id,
                                              system_id, elapsed_hours)]
    /\ UNCHANGED <<config, rollout_state>>
    /\ UNCHANGED <<logVars, writerVars, tufVars, recvVars>>

\* The latest clock reading the rollout state holds; later readings are not below it.
LatestTime ==
    IF rollout_state = None THEN 0
    ELSE IF "rollback_time" \in DOMAIN rollout_state THEN rollout_state.rollback_time
    ELSE rollout_state.start_time
\* The readings of utcnow() an operation may get, up to the hour horizon.
Times(horizon) == LatestTime..Max(LatestTime, horizon)

start_rollout(update_id, update_info, now) ==
    rollout_state' =
        [update_id |-> update_id, update_info |-> update_info, start_time |-> now,
         status |-> "active", health_reports |-> <<>>, rollback_triggered |-> FALSE]

StartRolloutWithin(horizon) ==
    /\ \E update_id \in UpdateIds, now \in Times(horizon) :
            start_rollout(update_id, "info", now)
    /\ UNCHANGED <<config, last_check>>
    /\ UNCHANGED <<logVars, writerVars, tufVars, recvVars>>

\* trigger_rollback that raises the flag and the time and leaves the status.
trigger_rollback_flag_only(state, now) ==
    [rollback_time |-> now] @@ [state EXCEPT !.rollback_triggered = TRUE]

\* trigger_rollback: the state it saves.
trigger_rollback(state, now) ==
    [rollback_time |-> now] @@
        [state EXCEPT !.rollback_triggered = TRUE, !.status = "rolled_back"]

LastN(seq, n) == SubSeq(seq, Max(1, Len(seq) - n + 1), Len(seq))

CriticalCount(reports) ==
    Cardinality({i \in 1..Len(reports) : reports[i].overall_status = "critical"})

\* check_rollback_conditions with the rate taken by integer division
\* (critical_count // len) * 100.
check_rollback_conditions_floor(state, now) ==
    LET recent_reports == LastN(state.health_reports, 10)
        critical_count == CriticalCount(recent_reports)
    IN  IF Len(recent_reports) < 5 THEN state
        ELSE IF (critical_count \div Len(recent_reports)) * 100
                    > config.health_checks.failure_threshold
        THEN trigger_rollback(state, now)
        ELSE state

\* check_rollback_conditions counting every stored report, without the [-10:] cut.
check_rollback_conditions_all(state, now) ==
    LET recent_reports == state.health_reports
        critical_count == CriticalCount(recent_reports)
    IN  IF Len(recent_reports) < 5 THEN state
        ELSE IF critical_count * 100
                    > config.health_checks.failure_threshold * Len(recent_reports)
        THEN trigger_rollback(state, now)
        ELSE state

\* check_rollback_conditions with ">=" in place of ">".
check_rollback_conditions_ge(state, now) ==
    LET recent_reports == LastN(state.health_reports, 10)
        critical_count == CriticalCount(recent_reports)
    IN  IF Len(recent_reports) < 5 THEN state
        ELSE IF critical_count * 100
                    >= config.health_checks.failure_threshold * Len(recent_reports)
        THEN trigger_rollback(state, now)
        ELSE state

\* check_rollback_conditions: the state left in rollout-state.json.  The float
\* (critical_count / len) * 100 > failure_threshold agrees with the integer
\* comparison below for every count out of at most 10 reports.
check_rollback_conditions(state, now) ==
    LET recent_reports == LastN(state.health_reports, 10)
        critical_count == CriticalCount(recent_reports)
        failure_threshold == config.health_checks.failure_threshold
    IN  IF Len(recent_reports) < 5 THEN state
        ELSE IF critical_count * 100 > failure_threshold * Len(recent_reports)
        THEN trigger_rollback(state, now)
        ELSE state

\* report_health without the cut to the last 100 reports.
report_health_untrimmed(update_id, health_results, now) ==
    LET appended == [rollout_state EXCEPT
                        !.health_reports = Append(@, health_results)]
    IN  rollout_state' =
            IF config.rollback.enabled /\ config.rollback.automatic
            THEN check_rollback_conditions(appended, now)
            ELSE appended

\* report_health checking the rollback conditions whatever the rollback settings.
report_health_unconditional(update_id, health_results, now) ==
    LET appended == [rollout_state EXCEPT
                        !.health_reports = LastN(Append(@, health_results), 100)]
    IN  rollout_state' = check_rollback_conditions(appended, now)

\* report_health(update_id); health_results is what check_system_health returned.
report_health(update_id, health_results, now) ==
    LET appended == [rollout_state EXCEPT
                        !.health_reports = LastN(Append(@, health_results), 100)]
    IN  rollout_state' =
            IF config.rollback.enabled /\ config.rollback.automatic
            THEN check_rollback_conditions(appended, now)
            ELSE appended

\* A health report is modelled by its overall_status; "warning" and "unknown" are
\* counted by the code like "healthy".
HealthResults == {[overall_status |-> s] : s \in {"healthy", "critical"}}

ReportHealthOf(limit, horizon) ==
    /\ rollout_state /= None
    /\ Len(rollout_state.health_reports) < limit
    /\ \E update_id \in UpdateIds, health_results \in HealthResults, now \in Times(horizon) :
        /\ rollout_state.update_id = update_id
        /\ report_health(update_id, health_results, now)
    /\ UNCHANGED <<config, last_check>>
    /\ UNCHANGED <<logVars, writerVars, tufVars, recvVars>>

\* Health checks of a healthy system, each carrying the "timestamp" of
\* check_system_health: one tick after the newest report stored.
NextStamp ==
    IF rollout_state.health_reports = <<>> THEN 1
    ELSE rollout_state.health_reports[Len(rollout_state.health_reports)].timestamp + 1

ReportHealthStamped ==
    /\ rollout_state /= None
    /\ NextStamp <= MaxStampedReports
    /\ \E update_id \in UpdateIds, now \in Times(0) :
        /\ rollout_state.update_id = update_id
        /\ report_health(update_id,
                         [overall_status |-> "healthy", timestamp |-> NextStamp], now)
    /\ UNCHANGED <<config, last_check>>
    /\ UNCHANGED <<logVars, writerVars, tufVars, recvVars>>

\* While health reports are studied the clock moves; while eligibility is probed
\* every stored reading is hour 0 and the elapsed time is drawn from ElapsedSamples.
StartRollout     == StartRolloutWithin(MaxTime)
StartRolloutGate == StartRolloutWithin(0)
ReportHealth     == ReportHealthOf(MaxReports, MaxTime)
ReportHealthGate == ReportHealthOf(MaxGateReports, 0)

\* The "rollback <update_id>" command of main().
RollbackCommand ==
    /\ rollout_state /= None
    /\ \E update_id \in UpdateIds, now \in Times(0) :
        /\ rollout_state.update_id = update_id
        /\ rollout_state' = trigger_rollback(rollout_state, now)
    /\ UNCHANGED <<config, last_check>>
    /\ UNCHANGED <<logVars, writerVars, tufVars, recvVars>>

RolloutInit(configs) ==
    /\ config \in configs
    /\ rollout_state = None
    /\ last_check = [update_id |-> "none"]

HealthConfigs ==
    {Config(default_stages, t, TRUE, a) : t \in {5, 40}, a \in BOOLEAN}
        \cup {Config(default_stages, 5, FALSE, a) : a \in BOOLEAN}
GateConfigs ==
    {Config(st, 40, TRUE, TRUE) :
        st \in {default_stages, ThreeStages, ClosedStages, FallingStages}}

(***************************************************************************)
(* log-server-config.py                                                    *)
(***************************************************************************)
\* Common names of client certificates; a certificate without one gives "unknown".
CertClients == {"c1", "c2", "unknown"}
\* Clients with a key file in /etc/log-server/client-keys.
KeyedClients == {"c1", "c2"}
LogBatches == {<<7>>, <<8, 9>>}
Handlers == {"h1", "h2"}

\* Readings of time.time(), in ticks; the wall clock may be set back between two
\* readings.  A file name carries the reading's second.
Stamps == 0..MaxStamp
TicksPerSecond == 2
SecondOf(timestamp) == timestamp \div TicksPerSecond

\* An RSA-PSS signature is the term naming the signing client's key and the bytes.
RsaSign(client_id, log_data) == [signer |-> client_id, msg |-> log_data]

verification_keys == [c \in KeyedClients |-> <<"rsa-public", c>>]

\* _verify_log_signature checking the signature under the key of the client that
\* made it, whichever client the certificate names.
_verify_log_signature_any_key(client_id, log_data, signature) ==
    signature.signer \in DOMAIN verification_keys /\ signature.msg = log_data

_verify_log_signature(client_id, log_data, signature) ==
    IF client_id \notin DOMAIN verification_keys THEN FALSE
    ELSE verification_keys[client_id] = <<"rsa-public", signature.signer>>
            /\ signature.msg = log_data

_calculate_log_hash(log_data) == hex(sha256(log_data))

\* _detect_tampering with the timestamp comparison left out.
_detect_tampering_unchecked(db, client_id, log_hash, timestamp) == FALSE

\* _detect_tampering: the chain hash it computes is not used.
_detect_tampering(db, client_id, log_hash, timestamp) ==
    LET client_chain == db[client_id]
    IN  IF client_chain = <<>> THEN FALSE
        ELSE timestamp < client_chain[Len(client_chain)].timestamp

\* The requests a client may send: its certificate (None: none presented, else
\* the tuple holding its common name), the body and the X-Log-Signature header
\* (None: absent; NotHex: not hexadecimal).
NotHex == <<"zz">>
PeerCerts == {None} \cup {<<c>> : c \in CertClients}
SignatureHeaders ==
    {None, NotHex} \cup {hex(RsaSign(signer, msg)) : signer \in KeyedClients,
                                                   msg \in LogBatches}
UploadRequests ==
    {[peercert |-> cert, log_data |-> log_data, signature_header |-> header] :
        cert \in PeerCerts, log_data \in LogBatches, header \in SignatureHeaders}

\* A task that is not handling a request; response is the status it answered
\* last (0: none yet).  client_id is "" when no certificate was presented and
\* timestamp is -1 when time.time() was not read.
Idle(status) ==
    [pc |-> "idle", client_id |-> "", log_data |-> None, signature_hex |-> None,
     verified |-> FALSE, timestamp |-> -1, log_filename |-> None, response |-> status]

\* Uploads accepted or on their way to be.
InFlight == {h \in Handlers : uploads[h].pc /= "idle"}
Chained ==
    LET RECURSIVE Sum(_)
        Sum(cs) == IF cs = {} THEN 0
                   ELSE LET c == CHOOSE x \in cs : TRUE
                        IN  Len(integrity_db[c]) + Sum(cs \ {c})
    IN  Sum(CertClients)

\* handle_log_upload from its start to the response, or to the suspension at
\* aiofiles.open; timestamp is the reading of time.time().
handle_log_upload_begin(h, request, timestamp) ==
    LET client_id == IF request.peercert = None THEN "" ELSE request.peercert[1]
        log_data  == request.log_data
        header    == request.signature_header
        rejected(status, verified, ts) ==
            [Idle(status) EXCEPT !.client_id = client_id,
                                 !.log_data = log_data, !.signature_hex = header,
                                 !.verified = verified, !.timestamp = ts]
    IN  IF request.peercert = None THEN Idle(401)
        ELSE IF header = None \/ header = NotHex THEN rejected(400, FALSE, -1)
        ELSE IF ~_verify_log_signature(client_id, log_data, fromhex(header))
        THEN rejected(403, FALSE, -1)
        ELSE IF _detect_tampering(integrity_db, client_id,
                                  _calculate_log_hash(log_data), timestamp)
        THEN rejected(409, TRUE, timestamp)
        ELSE [pc |-> "storing", client_id |-> client_id, log_data |-> log_data,
              signature_hex |-> header, verified |-> TRUE, timestamp |-> timestamp,
              log_filename |-> <<client_id, SecondOf(timestamp)>>,
              response |-> 0]

\* time.time() is read once the signature has verified.
ReadingsFor(request) ==
    IF /\ request.peercert /= None
       /\ request.signature_header \notin {None, NotHex}
       /\ _verify_log_signature(request.peercert[1], request.log_data,
                                 fromhex(request.signature_header))
    THEN Stamps ELSE {0}

UploadBeginOf(h, requests) ==
    /\ uploads[h].pc = "idle"
    /\ \E request \in requests :
        \E timestamp \in ReadingsFor(request) :
            LET next == handle_log_upload_begin(h, request, timestamp)
            IN  /\ next.pc = "storing" => Chained + Cardinality(InFlight) < MaxBatches
                /\ uploads' = [uploads EXCEPT ![h] = next]
    /\ UNCHANGED <<integrity_db, integrity_db_file, stored_logs>>
    /\ UNCHANGED <<logVars, writerVars, tufVars, rolloutVars>>

\* Correctly signed uploads of one batch content by the clients holding a key.
SignedRequests ==
    {[peercert |-> <<c>>, log_data |-> <<7>>, signature_header |-> hex(RsaSign(c, <<7>>))] :
        c \in KeyedClients}

\* One task serves every kind of request; several tasks serve signed requests.
UploadBegin      == UploadBeginOf("h1", UploadRequests)
UploadBeginBy(h) == UploadBeginOf(h, SignedRequests)

\* The batch file is opened for writing and written (the task is suspended meanwhile).
UploadStore(h) ==
    /\ uploads[h].pc = "storing"
    /\ LET path == <<uploads[h].client_id, uploads[h].log_filename>>
       IN  stored_logs' = {f \in stored_logs : f.path /= path}
                            \cup {[path |-> path, data |-> uploads[h].log_data]}
    /\ uploads' = [uploads EXCEPT ![h].pc = "stored"]
    /\ UNCHANGED <<integrity_db, integrity_db_file>>
    /\ UNCHANGED <<logVars, writerVars, tufVars, rolloutVars>>

\* A handler that chains the record before it writes the file: the write raises
\* and 500 is answered with the record left in the chain.
UploadStoreFailsChained(h) ==
    /\ uploads[h].pc = "storing"
    /\ LET u == uploads[h]
           record == [timestamp |-> u.timestamp,
                      hash      |-> _calculate_log_hash(u.log_data),
                      filename  |-> u.log_filename,
                      size      |-> Len(u.log_data)]
       IN  integrity_db' = [integrity_db EXCEPT ![u.client_id] = Append(@, record)]
    /\ uploads' = [uploads EXCEPT ![h] = [Idle(500) EXCEPT !.client_id = uploads[h].client_id]]
    /\ UNCHANGED <<integrity_db_file, stored_logs>>
    /\ UNCHANGED <<logVars, writerVars, tufVars, rolloutVars>>

\* Opening the batch file raises: the handler answers 500.
UploadStoreFails(h) ==
    /\ uploads[h].pc = "storing"
    /\ uploads' = [uploads EXCEPT ![h] = [Idle(500) EXCEPT !.client_id = uploads[h].client_id]]
    /\ UNCHANGED <<integrity_db, integrity_db_file, stored_logs>>
    /\ UNCHANGED <<logVars, writerVars, tufVars, rolloutVars>>

\* A handler that rebuilds the database from the chain of its own client and
\* drops the chains of the other clients.
UploadCommitOwnChainOnly(h) ==
    /\ uploads[h].pc = "stored"
    /\ LET u == uploads[h]
           record == [timestamp |-> u.timestamp,
                      hash      |-> _calculate_log_hash(u.log_data),
                      filename  |-> u.log_filename,
                      size      |-> Len(u.log_data)]
           db == [c \in CertClients |->
                    IF c = u.client_id THEN Append(integrity_db[c], record) ELSE <<>>]
       IN  /\ integrity_db' = db
           /\ integrity_db_file' = db
    /\ uploads' = [uploads EXCEPT ![h] = [Idle(200) EXCEPT !.client_id = uploads[h].client_id]]
    /\ UNCHANGED stored_logs
    /\ UNCHANGED <<logVars, writerVars, tufVars, rolloutVars>>

\* handle_log_upload resumed after the write: the record is appended to the
\* client's chain, the database saved and 200 answered.
UploadCommit(h) ==
    /\ uploads[h].pc = "stored"
    /\ LET u == uploads[h]
           record == [timestamp |-> u.timestamp,
                      hash      |-> _calculate_log_hash(u.log_data),
                      filename  |-> u.log_filename,
                      size      |-> Len(u.log_data)]
           db == [integrity_db EXCEPT ![u.client_id] = Append(@, record)]
       IN  /\ integrity_db' = db
           /\ integrity_db_file' = db
    /\ uploads' = [uploads EXCEPT ![h] = [Idle(200) EXCEPT !.client_id = uploads[h].client_id]]
    /\ UNCHANGED stored_logs
    /\ UNCHANGED <<logVars, writerVars, tufVars, rolloutVars>>

RecvInit ==
    /\ integrity_db = [c \in CertClients |-> <<>>]
    /\ integrity_db_file = None
    /\ stored_logs = {}
    /\ uploads = [h \in Handlers |-> Idle(0)]

(***************************************************************************)
(* Specifications                                                          *)
(***************************************************************************)
InitLog == LogInit /\ TufInit /\ RecvInit /\ RolloutInit({DefaultConfig})
NextLog == AddEntry \/ VerifyEntry
SpecLog == InitLog /\ [][NextLog]_vars

NextLogOps ==
    \/ AddEntryOps \/ VerifyEntryQuery
    \/ GetEntry \/ GetEntries \/ GetInclusionProof \/ SearchEntries \/ GetLogInfo
SpecLogOps == InitLog /\ [][NextLogOps]_vars

NextWriters ==
    \E w \in Writers :
        OpenLog(w) \/ WriteEntry(w) \/ SaveConfig(w) \/ SaveMerkleTree(w) \/ Crash(w)
SpecWriters == InitLog /\ [][NextWriters]_vars

NextOffline ==
    \/ OpenLog("w1") \/ WriteEntry("w1") \/ SaveConfig("w1") \/ SaveMerkleTree("w1")
    \/ Crash("w1") \/ WriterVerifyEntry("w1")
    \/ ReplaceEntryOffline
SpecOffline == InitLog /\ [][NextOffline]_vars

InitTUF == LogInit /\ TufInit /\ RecvInit /\ RolloutInit({DefaultConfig})
NextTUF == InitializeRootTrust \/ UpdateMetadata \/ InstallUpdate
SpecTUF == InitTUF /\ [][NextTUF]_vars

NextRefresh == InitializeRootTrust \/ DownloadRootTrust \/ UpdateMetadataDated
SpecRefresh == InitTUF /\ [][NextRefresh]_vars

NextSig == VerifySignatureCall
SpecSig == InitTUF /\ [][NextSig]_vars

InitHealth == LogInit /\ TufInit /\ RecvInit /\ RolloutInit(HealthConfigs)
NextHealth == StartRollout \/ ReportHealth
SpecHealth == InitHealth /\ [][NextHealth]_vars

NextRetention == StartRolloutGate \/ ReportHealthStamped
SpecRetention == InitHealth /\ [][NextRetention]_vars

InitGate == LogInit /\ TufInit /\ RecvInit /\ RolloutInit(GateConfigs)
NextGate == StartRolloutGate \/ ReportHealthGate \/ RollbackCommand \/ ShouldReceiveUpdate
SpecGate == InitGate /\ [][NextGate]_vars

NextRecv ==
    UploadBegin \/ UploadStore("h1") \/ UploadStoreFails("h1") \/ UploadCommit("h1")
SpecRecv == InitTUF /\ [][NextRecv]_vars

NextRecvTasks ==
    \E h \in Handlers :
        UploadBeginBy(h) \/ UploadStore(h) \/ UploadStoreFails(h) \/ UploadCommit(h)
SpecRecvTasks == InitTUF /\ [][NextRecvTasks]_vars

(***************************************************************************)
(* Properties                                                              *)
(***************************************************************************)

\* C1: for every log reached by appends and every index i below its size, the
\* inclusion proof produced for i verifies against the root of the tree.
C1_InclusionLaw ==
    \A i \in 0..(Len(log_entries) - 1) : verify_entry(log_entries, i)

\* C2: an install attempt places a file at the final path only if the streamed
\* bytes have the length, the SHA-256 and the SHA-512 of the targets entry, and the
\* file placed holds those bytes; an attempt that fails leaves every final path as
\* it was.
StreamMatches(stream, target_info) ==
    /\ stream.failure = "none"
    /\ Len(stream.bytes) = target_info.length
    /\ hex(sha256(stream.bytes)) = target_info.hashes.sha256
    /\ hex(sha512(stream.bytes)) = target_info.hashes.sha512

C2_InstallOnlyVerified ==
    [][tuf_last'.op = "install_update" =>
        IF tuf_last'.result = "installed"
        THEN /\ StreamMatches(tuf_last'.stream, tuf_last'.target_info)
             /\ install_paths' = [install_paths EXCEPT
                                    ![tuf_last'.target_name] = tuf_last'.stream.bytes]
        ELSE install_paths' = install_paths]_vars

C2_Witness ==
    /\ tuf_last.op = "install_update"
    /\ tuf_last.result = "installed"
    /\ install_paths["pkg"] = GoodBlob

\* C3: verify_signature accepts an envelope for a role exactly when the number of
\* distinct key ids of the role with a valid signature reaches the role's threshold.
DistinctValidKeyIds(call) ==
    {kid \in call.keyids :
        \E i \in 1..Len(call.signed_metadata.signatures) :
            /\ call.signed_metadata.signatures[i].keyid = kid
            /\ Ed25519Verify(PublicKey(kid),
                             fromhex(call.signed_metadata.signatures[i].signature),
                             CanonicalJSON(call.signed_metadata.signed))}

C3_ThresholdRule ==
    vs_call.result \in {"True", "False"} =>
        (vs_call.result = "True"
            <=> Cardinality(DistinctValidKeyIds(vs_call)) >= vs_call.threshold)

\* C4: a refresh served a timestamp one version below the cached one fails and
\* leaves the cache unchanged, and the cached timestamp version never decreases.
CachedTimestampVersion(cache) ==
    IF cache.timestamp = None THEN 0 ELSE cache.timestamp.signed.version

C4_NoVersionRegression ==
    [][/\ (/\ tuf_last'.op = "update_metadata"
           /\ metadata_cache.timestamp /= None
           /\ tuf_last'.served_version = CachedTimestampVersion(metadata_cache) - 1)
          => (tuf_last'.result /= "ok" /\ metadata_cache' = metadata_cache)
       /\ CachedTimestampVersion(metadata_cache') >= CachedTimestampVersion(metadata_cache)
      ]_vars

\* C5: while the stored rollout has rollback_triggered = true, should_receive_update
\* for its update is not eligible, for every node and every elapsed time.
Eligible(system_id, elapsed_hours) ==
    should_receive_update(rollout_state, config.stages, rollout_state.update_id,
                          system_id, elapsed_hours).eligible

C5_RolledBackNotEligible ==
    (rollout_state /= None /\ rollout_state.rollback_triggered) =>
        \A system_id \in SystemIds, elapsed_hours \in ElapsedSamples :
            ~Eligible(system_id, elapsed_hours)

\* C6: with failure_threshold 40 and automatic rollback, after 10 reports of which
\* exactly 5 are critical the rollout is rolled back.
AutoRollbackAt40 ==
    /\ rollout_state /= None
    /\ config.health_checks.failure_threshold = 40
    /\ config.rollback.enabled /\ config.rollback.automatic

C6_FiveOfTenTriggers ==
    (/\ AutoRollbackAt40
     /\ Len(rollout_state.health_reports) = 10
     /\ CriticalCount(rollout_state.health_reports) = 5)
        => (rollout_state.rollback_triggered /\ rollout_state.status = "rolled_back")

C6_Witness ==
    /\ AutoRollbackAt40
    /\ Len(rollout_state.health_reports) = 10
    /\ CriticalCount(rollout_state.health_reports) = 5
    /\ rollout_state.health_reports[1].overall_status = "healthy"
    /\ rollout_state.rollback_triggered

\* C7 as stated: with failure_threshold 40 and automatic rollback, at no point of a
\* stream of 10 reports with exactly 3 critical ones is rollback triggered.
InStreamOfThreeCritical ==
    /\ AutoRollbackAt40
    /\ Len(rollout_state.health_reports) <= 10
    /\ CriticalCount(rollout_state.health_reports) <= 3
    /\ Len(rollout_state.health_reports) - CriticalCount(rollout_state.health_reports) <= 7

C7_ThreeOfTenNeverTriggers ==
    InStreamOfThreeCritical => ~rollout_state.rollback_triggered

\* C7 amended: ... provided at most 2 of the first 7 reports are critical (no
\* prefix of 5 or more reports has a critical rate above 40 %).
C7_ThreeOfTenLateNeverTriggers ==
    (/\ InStreamOfThreeCritical
     /\ CriticalCount(SubSeq(rollout_state.health_reports, 1,
                             Min(7, Len(rollout_state.health_reports)))) <= 2)
        => ~rollout_state.rollback_triggered

C7_Witness ==
    /\ InStreamOfThreeCritical
    /\ Len(rollout_state.health_reports) = 10
    /\ CriticalCount(rollout_state.health_reports) = 3
    /\ CriticalCount(SubSeq(rollout_state.health_reports, 1, 7)) = 2
    /\ ~rollout_state.rollback_triggered

\* C8: while the elapsed time lies within the first stage's duration, only nodes
\* whose bucket is below the first stage's percentage are eligible.
C8_FirstStageGate ==
    (rollout_state /= None /\ rollout_state.status = "active") =>
        \A system_id \in SystemIds, elapsed_hours \in ElapsedSamples :
            (/\ elapsed_hours <= config.stages[1].duration_hours
             /\ Eligible(system_id, elapsed_hours))
                => calculate_rollout_group(rollout_state.update_id, system_id)
                        < config.stages[1].percentage

\* C9: for stages with non-decreasing percentages and an active rollout that is not
\* rolled back, a node eligible at elapsed time t1 is eligible at every t2 >= t1.
NonDecreasing(stages) ==
    \A k \in 1..(Len(stages) - 1) : stages[k].percentage <= stages[k + 1].percentage

C9_EligibilityMonotone ==
    (/\ rollout_state /= None
     /\ rollout_state.status = "active"
     /\ ~rollout_state.rollback_triggered
     /\ NonDecreasing(config.stages))
        => \A system_id \in SystemIds, t1 \in ElapsedSamples, t2 \in ElapsedSamples :
              (t1 <= t2 /\ Eligible(system_id, t1)) => Eligible(system_id, t2)

C9_Witness ==
    /\ rollout_state /= None
    /\ rollout_state.status = "active"
    /\ config.stages = ClosedStages
    /\ last_check.update_id = rollout_state.update_id
    /\ last_check.elapsed_hours = 150
    /\ last_check.result.eligible
    /\ \E system_id \in SystemIds : ~Eligible(system_id, 0)

\* C10: start_rollout for another update is rejected while a rollout is active, and
\* leaves the stored state unchanged: the update_id of an active rollout never changes.
C10_StartRejectedWhileActive ==
    [][(rollout_state /= None /\ rollout_state.status = "active")
        => rollout_state'.update_id = rollout_state.update_id]_vars

\* C11: rolled_back is terminal: once the rollout of an update has status
\* rolled_back, no operation brings the rollout of that update back to active or
\* clears rollback_triggered.
C11_RolledBackTerminal ==
    [][(/\ rollout_state /= None
        /\ rollout_state.status = "rolled_back"
        /\ rollout_state'.update_id = rollout_state.update_id)
        => (/\ rollout_state'.status = "rolled_back"
            /\ rollout_state'.rollback_triggered)]_vars

\* C12: a health report recorded for a rolled-back rollout is only recorded:
\* rollback_time and status are as they were.
ReportRecorded ==
    /\ rollout_state /= None
    /\ rollout_state'.update_id = rollout_state.update_id
    /\ Len(rollout_state'.health_reports) = Len(rollout_state.health_reports) + 1
C12_NoEvaluationAfterRollback ==
    [][(ReportRecorded /\ rollout_state.status = "rolled_back")
        => (/\ rollout_state'.status = rollout_state.status
            /\ rollout_state'.rollback_time = rollout_state.rollback_time)]_vars

\* C13: a single writer starting from an empty log: after k appends the entry
\* count in memory, the tree_size of config.json and the tree_size of
\* merkle-tree.json are k, and the journal's indices are exactly 0..k-1.
C13_IndicesAreAppendPositions ==
    LET k == Len(log_entries)
    IN  /\ log_config.tree_size = k
        /\ IF k = 0 THEN merkle_tree_file = None
           ELSE merkle_tree_file /= None /\ merkle_tree_file.tree_size = k
        /\ Len(entries_file) = k
        /\ \A i \in 1..k : /\ log_entries[i].log_index = i - 1
                           /\ entries_file[i].log_index = i - 1
C13_Witness ==
    /\ Len(log_entries) = 3
    /\ log_entries[3].log_index = 2
    /\ merkle_tree_file.tree_size = 3

\* C14: two instances appending on one log directory, in any interleaving: the
\* journal never holds two entries with one log_index and its indices are 0..n-1.
C14_JournalIndicesGapFree ==
    \A i \in 1..Len(entries_file) : entries_file[i].log_index = i - 1

\* C15: after an interruption of add_entry at any point, the root pointer on disk
\* covers the journal on disk: the journal is empty and no size was advanced, or
\* merkle-tree.json holds the size and the root of the whole journal.
JournalCovered ==
    IF entries_file = <<>>
    THEN log_config.tree_size = 0 /\ merkle_tree_file = None
    ELSE /\ merkle_tree_file /= None
         /\ merkle_tree_file.tree_size = Len(entries_file)
         /\ merkle_tree_file.root_hash
                = hex(build_merkle_tree(LeafHashes(entries_file)).root_hash)
C15_InterruptedAppendCovered ==
    (tampered = {} /\ \A w \in Writers : writers[w].pc = "closed") => JournalCovered

\* C16: verify_entry(i) of an entry that was replaced offline by an entry with
\* another payload reports verified = false.
C16_ReplacedEntryFailsVerification ==
    [][(/\ verify_result' /= verify_result
        /\ verify_result'.log_index \in tampered
        /\ merkle_tree_file /= None
        /\ merkle_tree_file.tree_size = Len(entries_file))
        => ~verify_result'.verified]_vars

\* C17: over any sequence of log operations the tree size never decreases and an
\* entry once appended is never changed or removed, in memory and in the journal.
IsPrefix(old, new) ==
    Len(old) <= Len(new) /\ \A i \in 1..Len(old) : new[i] = old[i]
C17_AppendOnly ==
    [][/\ IsPrefix(log_entries, log_entries')
       /\ IsPrefix(entries_file, entries_file')
       /\ log_config'.tree_size >= log_config.tree_size]_vars
C17_Witness ==
    /\ Len(log_entries) = 2
    /\ query_result /= None
    /\ query_result.op = "search_entries"
    /\ Len(query_result.result) = 1

\* C18: in every reachable state of the receiver, whatever the interleaving of
\* the upload tasks, the timestamps of a client's chain records are
\* non-decreasing in chain order.
C18_ChainTimestampsNonDecreasing ==
    \A c \in CertClients :
        \A i \in 1..(Len(integrity_db[c]) - 1) :
            integrity_db[c][i].timestamp <= integrity_db[c][i + 1].timestamp

\* C19: a correctly signed batch whose timestamp is lower than the timestamp of
\* the last record of its client's chain is answered 409; the chain does not
\* advance and no batch file is stored.
ArrivesBehindChain(h) ==
    /\ uploads[h].pc = "idle"
    /\ uploads'[h] /= uploads[h]
    /\ uploads'[h].verified
    /\ integrity_db[uploads'[h].client_id] /= <<>>
    /\ LET chain == integrity_db[uploads'[h].client_id]
       IN  uploads'[h].timestamp < chain[Len(chain)].timestamp
C19_RegressionAnswered409 ==
    [][\A h \in Handlers :
        ArrivesBehindChain(h)
            => (/\ uploads'[h].pc = "idle"
                /\ uploads'[h].response = 409
                /\ integrity_db' = integrity_db
                /\ integrity_db_file' = integrity_db_file
                /\ stored_logs' = stored_logs)]_vars
C19_Witness ==
    /\ uploads["h1"].response = 409
    /\ uploads["h1"].timestamp < integrity_db[uploads["h1"].client_id][1].timestamp
    /\ Cardinality(stored_logs) = 1

\* C20: whenever the receiver answers 409 (tamper suspected), an entry of type
\* security_event with severity critical was appended to the transparency log
\* before the response.
SeverityOf(data) == data
Answers409(h) == uploads'[h] /= uploads[h] /\ uploads'[h].response = 409
C20_TamperLoggedAsSecurityEvent ==
    [][\A h \in Handlers :
        Answers409(h)
            => (/\ Len(entries_file') = Len(entries_file) + 1
                /\ entries_file'[Len(entries_file')].entry_type = "security_event"
                /\ SeverityOf(entries_file'[Len(entries_file')].data) = "critical")]_vars

\* C21: whenever a rollout goes from active to rolled_back, an entry of type
\* rollout_event, event rollback, for that update_id is appended to the
\* transparency log.
RollbackEvent(update_id) == [update_id |-> update_id, event_type |-> "rollback"]
BecomesRolledBack ==
    /\ rollout_state /= None
    /\ rollout_state.status = "active"
    /\ rollout_state'.status = "rolled_back"
C21_RollbackLogged ==
    [][BecomesRolledBack
        => (/\ Len(entries_file') = Len(entries_file) + 1
            /\ entries_file'[Len(entries_file')].entry_type = "rollout_event"
            /\ entries_file'[Len(entries_file')].data
                    = RollbackEvent(rollout_state.update_id))]_vars

\* C22: a refresh that fetches a timestamp, snapshot or targets file whose
\* "expires" lies in the past fails with an expired-metadata error and leaves the
\* cached metadata as it was.  Refreshes run on day 1, so a refresh that changes
\* the cache must not have written a file that expired before day 1.
ExpiredFile(file) == file /= None /\ file.signed.expires < 1
C22_ExpiredMetadataRefused ==
    [][(tuf_last'.op = "update_metadata" /\ metadata_cache' /= metadata_cache)
        => (/\ ~ExpiredFile(metadata_cache'.timestamp)
            /\ ~ExpiredFile(metadata_cache'.snapshot)
            /\ ~ExpiredFile(metadata_cache'.targets)
            /\ tuf_last'.result = "ok")]_vars

\* C23: when the signature verification of the timestamp, snapshot or targets
\* file fails during update_metadata, the operation ends with that error and none
\* of the three cached files is modified.
SignatureFailures ==
    {"Timestamp metadata signature verification failed",
     "Snapshot metadata signature verification failed",
     "Targets metadata signature verification failed"}
C23_NoPartialCacheUpdate ==
    [][(/\ tuf_last'.op = "update_metadata"
        /\ tuf_last'.result \in SignatureFailures)
        => metadata_cache' = metadata_cache]_vars
\* A refresh failed at the snapshot after a timestamp verified that is not the
\* cached one.
C23_Witness ==
    /\ tuf_last.op = "update_metadata"
    /\ tuf_last.result = "Snapshot metadata signature verification failed"
    /\ metadata_cache.timestamp /= None
    /\ tuf_last.served_version /= metadata_cache.timestamp.signed.version

\* C24: a root fetched from the server replaces trusted_root only when its
\* version is exactly the trusted version plus one: the trusted root version
\* never decreases and never skips a version.
RootFetched ==
    /\ tuf_last'.op = "initialize_root_trust"
    /\ tuf_last'.source = "download"
    /\ trusted_root /= None
C24_RootVersionStepsByOne ==
    [][RootFetched
        => (/\ trusted_root' /= trusted_root
                => trusted_root'.signed.version = trusted_root.signed.version + 1
            /\ trusted_root'.signed.version >= trusted_root.signed.version)]_vars

\* C25: a root fetched from the server replaces trusted_root and root_keys only
\* if its envelope meets the root role of the trusted root and the root role it
\* carries itself: for each, signatures by at least threshold distinct keys of
\* the role verify.
ValidRootKeyIds(envelope, root) ==
    {kid \in RoleKeyIds(root, "root") :
        \E i \in 1..Len(envelope.signatures) :
            /\ envelope.signatures[i].keyid = kid
            /\ Ed25519Verify(PublicKey(kid), fromhex(envelope.signatures[i].signature),
                             CanonicalJSON(envelope.signed))}
RoleValid(envelope, root) ==
    Cardinality(ValidRootKeyIds(envelope, root)) >= root.signed.roles["root"].threshold
C25_RootCrossSigned ==
    [][(RootFetched /\ (trusted_root' /= trusted_root \/ root_keys' /= root_keys))
        => (/\ RoleValid(trusted_root', trusted_root)
            /\ RoleValid(trusted_root', trusted_root'))]_vars

\* C26: a refresh accepts and caches a snapshot only if its hash and length equal
\* the snapshot reference of the timestamp verified in the same refresh, and a
\* targets file only if they equal the targets reference of that snapshot.  The
\* three cached files are always those of one refresh.
Referenced(ref, file) ==
    /\ ref.length = Len(FileBytes(file))
    /\ ref.hashes.sha256 = hex(sha256(FileBytes(file)))
C26_CachedFilesAreTheReferencedOnes ==
    metadata_cache /= NoCache
        => (/\ Referenced(metadata_cache.timestamp.signed.meta["snapshot.json"],
                          metadata_cache.snapshot)
            /\ Referenced(metadata_cache.snapshot.signed.meta["targets.json"],
                          metadata_cache.targets))

\* C27: the bucket reported for (update_id, system_id) lies in 0..99 and depends
\* on that pair only: whatever start_rollout, report_health and rollback did
\* before, and in whichever run of the manager, the pair is reported the bucket
\* SHA-256 of "update_id:system_id" gives (first eight hex digits, modulo 100).
Sha256Bucket ==
    [pair \in UpdateIds \X SystemIds |->
        CASE pair = <<"U1", "node-0023">> -> 0
          [] pair = <<"U1", "node-0040">> -> 5
          [] pair = <<"U1", "node-0039">> -> 50
          [] pair = <<"U1", "node-0058">> -> 99
          [] pair = <<"U2", "node-0023">> -> 13
          [] pair = <<"U2", "node-0040">> -> 56
          [] pair = <<"U2", "node-0039">> -> 0
          [] pair = <<"U2", "node-0058">> -> 96]
BucketReported == last_check.update_id /= "none" /\ last_check.result.info /= None
C27_BucketDependsOnPairOnly ==
    BucketReported
        => (/\ last_check.result.info.rollout_percentage \in 0..99
            /\ last_check.result.info.rollout_percentage
                    = Sha256Bucket[<<last_check.update_id, last_check.system_id>>])
\* A bucket reported for a rollout that has health reports and was rolled back.
C27_Witness ==
    /\ BucketReported
    /\ rollout_state.update_id = last_check.update_id
    /\ rollout_state.status = "rolled_back"
    /\ Len(rollout_state.health_reports) >= 2

\* C28: the stored health_reports has at most 100 elements, and after each
\* report_health it consists of the most recent reports in arrival order: the new
\* report is last, the reports before it are the newest stored ones in their old
\* order, and the oldest is dropped once 100 are stored.
HealthReportStored ==
    /\ rollout_state /= None
    /\ rollout_state'.update_id = rollout_state.update_id
    /\ rollout_state'.health_reports /= <<>>
    /\ rollout_state'.health_reports /= rollout_state.health_reports
C28_LastHundredInArrivalOrder ==
    [][HealthReportStored
        => LET old == rollout_state.health_reports
               new == rollout_state'.health_reports
           IN  /\ Len(new) = Min(Len(old) + 1, 100)
               /\ \A i \in 1..(Len(new) - 1) : new[i] = old[Len(old) - (Len(new) - 1) + i]
               /\ \A i \in 1..Len(old) : new[Len(new)].timestamp > old[i].timestamp]_vars
\* 100 reports are stored and the two oldest were dropped.
C28_Witness ==
    /\ rollout_state /= None
    /\ Len(rollout_state.health_reports) = 100
    /\ rollout_state.health_reports[1].timestamp = 3
    /\ rollout_state.health_reports[100].timestamp = 102

\* C29: an upload changes the chain of the client it comes from only when it is
\* answered 200, and then exactly one record is appended at the end of that
\* chain; an upload answered 401, 400, 403, 409 or 500 leaves every chain as it was.
AnsweredWith(h, statuses) ==
    /\ uploads'[h] /= uploads[h]
    /\ uploads'[h].pc = "idle"
    /\ uploads'[h].response \in statuses
AppendsOne(client_id) ==
    /\ Len(integrity_db'[client_id]) = Len(integrity_db[client_id]) + 1
    /\ SubSeq(integrity_db'[client_id], 1, Len(integrity_db[client_id]))
            = integrity_db[client_id]
C29_ChainChangesOnlyOn200 ==
    [][/\ \A h \in Handlers :
            /\ AnsweredWith(h, {200})
                => (/\ AppendsOne(uploads'[h].client_id)
                    /\ \A c \in CertClients \ {uploads'[h].client_id} :
                            integrity_db'[c] = integrity_db[c])
            /\ AnsweredWith(h, {401, 400, 403, 409, 500}) => integrity_db' = integrity_db
       /\ integrity_db' /= integrity_db => \E h \in Handlers : AnsweredWith(h, {200})
      ]_vars
\* A second batch of a client was answered 200, and an upload answered 500.
C29_Witness ==
    /\ uploads["h1"].response = 200
    /\ Len(integrity_db[uploads["h1"].client_id]) = 2
C29_WitnessFailed ==
    /\ uploads["h1"].response = 500
    /\ Len(integrity_db[uploads["h1"].client_id]) = 1

\* C30: for a log of n >= 2 entries the inclusion proof of every index has exactly
\* one step per level below the root (the number of levels minus one), and at a
\* level where the node on the path is the unpaired last node the step's sibling
\* hash is the node's own hash.
RECURSIVE PathIndex(_, _)
PathIndex(entry_index, lvl) ==
    IF lvl = 1 THEN entry_index ELSE PathIndex(entry_index, lvl - 1) \div 2
ProofHasOneStepPerLevel(tree_levels, entry_index) ==
    LET proof == create_inclusion_proof(entry_index, tree_levels)
    IN  /\ Len(proof) = Len(tree_levels) - 1
        /\ \A lvl \in 1..(Len(tree_levels) - 1) :
            LET level == tree_levels[lvl]
                node  == PathIndex(entry_index, lvl)
            IN  (node = Len(level) - 1 /\ node % 2 = 0)
                    => proof[lvl].hash = hex(level[node + 1])
C30_ProofLengthIsTreeHeight ==
    Len(log_entries) >= 2
        => \A entry_index \in 0..(Len(log_entries) - 1) :
            ProofHasOneStepPerLevel(
                build_merkle_tree(LeafHashes(log_entries)).tree_levels, entry_index)

\* C31: with rollback enabled and automatic, a report_health call on an active
\* rollout triggers rollback if and only if, once the report is recorded, at
\* least 5 reports are present and among the 10 most recent ones
\* critical_count * 100 > failure_threshold * report_count.
RollbackDue(reports) ==
    LET first  == Max(1, Len(reports) - 9)
        recent == {i \in first..Len(reports) : TRUE}
        critical == {i \in recent : reports[i].overall_status = "critical"}
    IN  /\ Len(reports) >= 5
        /\ Cardinality(critical) * 100
                > config.health_checks.failure_threshold * Cardinality(recent)
C31_TriggersIffRateAboveThreshold ==
    [][(/\ ReportRecorded
        /\ rollout_state.status = "active"
        /\ config.rollback.enabled /\ config.rollback.automatic)
        => (/\ rollout_state'.rollback_triggered <=> RollbackDue(rollout_state'.health_reports)
            /\ rollout_state'.status = "rolled_back"
                    <=> RollbackDue(rollout_state'.health_reports))]_vars
\* Eleven reports, five of them critical, the oldest one among them: the ten most
\* recent hold four, a rate equal to the threshold of 40, and the rollout is active.
C31_Witness ==
    /\ AutoRollbackAt40
    /\ Len(rollout_state.health_reports) = 11
    /\ rollout_state.health_reports[1].overall_status = "critical"
    /\ CriticalCount(rollout_state.health_reports) = 5
    /\ rollout_state.status = "active"
    /\ ~rollout_state.rollback_triggered

\* C32: when rollback.enabled is false or rollback.automatic is false, no
\* report_health call, whatever the status it reports, takes the rollout out of
\* active or sets rollback_triggered.
C32_NoAutomaticRollbackWhenSwitchedOff ==
    [][(/\ ReportRecorded
        /\ rollout_state.status = "active"
        /\ ~(config.rollback.enabled /\ config.rollback.automatic))
        => (/\ rollout_state'.status = "active"
            /\ ~rollout_state'.rollback_triggered)]_vars
\* Eleven critical reports with rollback disabled, and ten with rollback manual.
C32_Witness ==
    /\ rollout_state /= None
    /\ ~config.rollback.enabled
    /\ config.rollback.automatic
    /\ CriticalCount(rollout_state.health_reports) = 11
    /\ rollout_state.status = "active"
C32_WitnessManual ==
    /\ rollout_state /= None
    /\ config.rollback.enabled
    /\ ~config.rollback.automatic
    /\ CriticalCount(rollout_state.health_reports) = 10
    /\ rollout_state.status = "active"

\* C33: whenever a target download fails (length mismatch, SHA-256 or SHA-512
\* mismatch, or a network error, also one in the middle of the stream), no
\* temporary file created by that download remains afterwards.
DownloadFailures ==
    {"Failed to download", "Size mismatch", "SHA256 hash mismatch", "SHA512 hash mismatch"}
C33_NoTempFileAfterFailedDownload ==
    [][(/\ tuf_last'.op = "install_update"
        /\ tuf_last'.result \in DownloadFailures)
        => temp_files' = temp_files]_vars

\* C34: an upload is accepted, stored and chained for client C only if a
\* verification key is installed for C and the detached signature verifies over
\* the raw batch bytes under that key; an upload from a client without an
\* installed key, or signed with the key of another client, is answered 403 and
\* nothing is stored.
SignedBy(client_id, log_data, signature_hex) ==
    /\ client_id \in KeyedClients
    /\ signature_hex = hex(RsaSign(client_id, log_data))
Accepted(h) == uploads[h].pc = "idle" /\ uploads'[h].pc = "storing"
RefusedSignature(h) ==
    /\ uploads[h].pc = "idle"
    /\ uploads'[h] /= uploads[h]
    /\ uploads'[h].client_id /= ""
    /\ uploads'[h].signature_hex \notin {None, NotHex}
    /\ ~SignedBy(uploads'[h].client_id, uploads'[h].log_data, uploads'[h].signature_hex)
C34_OnlyOwnKeySignedUploadsAccepted ==
    [][\A h \in Handlers :
        /\ Accepted(h)
            => SignedBy(uploads'[h].client_id, uploads'[h].log_data,
                        uploads'[h].signature_hex)
        /\ RefusedSignature(h)
            => (/\ uploads'[h].pc = "idle"
                /\ uploads'[h].response = 403
                /\ stored_logs' = stored_logs
                /\ integrity_db' = integrity_db)
        /\ \A c \in CertClients \ KeyedClients :
            /\ integrity_db'[c] = <<>>
            /\ \A f \in stored_logs' : f.path[1] /= c]_vars
\* Client c1 presents a batch signed with the key of c2 and is answered 403, and
\* a client without a key presents a signed batch and is answered 403.
C34_Witness ==
    /\ uploads["h1"].client_id = "c1"
    /\ uploads["h1"].signature_hex = hex(RsaSign("c2", uploads["h1"].log_data))
    /\ uploads["h1"].response = 403
C34_WitnessNoKey ==
    /\ uploads["h1"].client_id = "unknown"
    /\ uploads["h1"].signature_hex = hex(RsaSign("c1", uploads["h1"].log_data))
    /\ uploads["h1"].response = 403

\* C35: for every accepted batch that is not the first of its client the receiver
\* stores the chain advance sha256(prev.hash || batch_hash): every chain record
\* after the first carries the hash that links it to its predecessor.
ChainAdvance(prev, record) == hex(sha256(<<prev.hash, record.hash>>))
C35_ChainAdvanceStored ==
    \A c \in CertClients :
        \A i \in 2..Len(integrity_db[c]) :
            /\ "chain_hash" \in DOMAIN integrity_db[c][i]
            /\ integrity_db[c][i].chain_hash
                    = ChainAdvance(integrity_db[c][i - 1], integrity_db[c][i])

\* C36: in every receiver state each chain record of a client names a stored
\* batch file whose content has the record's size and whose SHA-256 is the
\* record's hash; two batches of one client accepted within the same clock
\* second are stored under distinct filenames and neither overwrites the other.
RecordHasItsFile(client_id, record) ==
    \E f \in stored_logs :
        /\ f.path = <<client_id, record.filename>>
        /\ Len(f.data) = record.size
        /\ hex(sha256(f.data)) = record.hash
C36_ChainRecordsNameTheirFiles ==
    \A c \in CertClients :
        /\ \A i \in 1..Len(integrity_db[c]) : RecordHasItsFile(c, integrity_db[c][i])
        /\ \A i, j \in 1..Len(integrity_db[c]) :
            i /= j => integrity_db[c][i].filename /= integrity_db[c][j].filename

\* C37: after a crash between the journal write and the write of the root
\* pointer the log is recoverable: an instance reopened on the directory replays
\* the journal and reports the tree_size and root_hash of all journal entries,
\* and its next completed append writes a root pointer that covers every journal
\* entry again.
Reopened(w) == writers[w].pc = "closed" /\ writers'[w].pc = "idle"
AppendCompleted(w) == writers[w].pc = "config_saved" /\ writers'[w].pc = "idle"
C37_WitnessRecovered ==
    /\ writers["w1"].pc = "idle"
    /\ Len(entries_file) = 2
    /\ merkle_tree_file /= None
    /\ merkle_tree_file.tree_size = 2
    /\ log_config.tree_size = 2
    /\ verify_result = None

\* C38: in every reachable rollout state rollback_triggered is true exactly when
\* the status is rolled_back, a rollback_time is present exactly when
\* rollback_triggered is true, and the status is one of active, rolled_back and
\* complete.
C38_RolloutStateConsistent ==
    rollout_state /= None =>
        /\ rollout_state.rollback_triggered <=> rollout_state.status = "rolled_back"
        /\ "rollback_time" \in DOMAIN rollout_state <=> rollout_state.rollback_triggered
        /\ rollout_state.status \in {"active", "rolled_back", "complete"}
\* A rollout rolled back by its fifth critical report, and a rollout rolled back
\* by command before any report.
C38_Witness ==
    /\ rollout_state /= None
    /\ rollout_state.status = "rolled_back"
    /\ rollout_state.rollback_triggered
    /\ "rollback_time" \in DOMAIN rollout_state
    /\ Len(rollout_state.health_reports) = 5
C38_WitnessCommand ==
    /\ rollout_state /= None
    /\ rollout_state.status = "rolled_back"
    /\ rollout_state.rollback_triggered
    /\ rollout_state.health_reports = <<>>

\* C39: a step of a handler serving an upload of client A, whatever the upload's
\* outcome and however it interleaves with other uploads, leaves the chain of
\* every other client B as it was, in memory and in the saved database.
HandlerStepped(h) == uploads'[h] /= uploads[h]
C39_OtherClientsChainsUnchanged ==
    [][\A h \in Handlers :
        HandlerStepped(h) =>
            \A b \in CertClients \ {uploads'[h].client_id} :
                /\ integrity_db'[b] = integrity_db[b]
                /\ integrity_db_file' /= integrity_db_file
                    => integrity_db_file'[b] = integrity_db[b]]_vars
\* Two handlers that served c1 and c2 in turn: both chains hold their record.
C39_Witness ==
    /\ uploads["h1"].client_id = "c1" /\ uploads["h1"].response = 200
    /\ uploads["h2"].client_id = "c2" /\ uploads["h2"].response = 200
    /\ Len(integrity_db["c1"]) = 1
    /\ Len(integrity_db["c2"]) = 1
\* An upload of c1 suspended in its file write while c2 has a record chained.
C39_WitnessInFlight ==
    /\ uploads["h1"].client_id = "c1" /\ uploads["h1"].pc = "stored"
    /\ Len(integrity_db["c2"]) = 1
    /\ integrity_db["c1"] = <<>>

====
